---- MODULE Spec2Model ----
(***************************************************************************)
(* Model of salt/models/transformer_v2.py: the mask merge, the Attention   *)
(* module (construction, forward, the torch backend and the two kernels)   *)
(* and the TransformerV2 stack of encoder layers.                          *)
(*                                                                         *)
(* Tensors are modelled by their shape and, where a property is about      *)
(* their entries, by their entries: a boolean mask holds booleans, the     *)
(* projected keys and values hold symbolic elements <<"k", b, j, c>> that  *)
(* name the entry of the projection they come from, so that a reshape, a   *)
(* transpose or a repetition is visible in where each element ends up.     *)
(* Indices are 0-based, as in the source.                                  *)
(***************************************************************************)
EXTENDS Integers, Sequences, FiniteSets, TLC

VARIABLES
    pc,         \* where the Attention object / the call is
    cfg,        \* the arguments Attention.__init__ was called with
    self,       \* the Attention object
    args,       \* the arguments of the call (forward, or merge_masks)
    merged,     \* the value merge_masks returned
    q, k, v,    \* the locals q, k, v of forward and _torch_backend
    attn_mask,  \* the local attn_mask of forward and _torch_backend
    kv_mask,    \* the local kv_mask of forward
    kernel_in,  \* the arguments scaled_dot_product_attention was called with
    out,        \* the shape forward returned
    raised,     \* the exception that ended the constructor or the call
    tpc,        \* where the TransformerV2 object / its forward call is
    tself,      \* the TransformerV2 object
    targs,      \* the arguments TransformerV2.forward was called with
    tx,         \* the shape of the local x of TransformerV2.forward
    tpad,       \* the local pad_mask of TransformerV2.forward
    ti,         \* the number of layers applied so far
    tseen,      \* the arguments each layer was called with, in order
    traised     \* the exception that ended the constructor or the call

vars == <<pc, cfg, self, args, merged, q, k, v, attn_mask, kv_mask, kernel_in, out,
          raised, tpc, tself, targs, tx, tpad, ti, tseen, traised>>

attnVars == <<pc, cfg, self, args, merged, q, k, v, attn_mask, kv_mask, kernel_in,
              out, raised>>
stackVars == <<tpc, tself, targs, tx, tpad, ti, tseen, traised>>

(***************************************************************************)
(* Bounds of the model.                                                    *)
(***************************************************************************)
MaxQLen == 2
MaxKvLen == 2
MaxLayers == 2

BatchSizes == {1, 2}
QLens == 1..MaxQLen
KvLens == 1..MaxKvLen

(***************************************************************************)
(* Tensors.                                                                *)
(***************************************************************************)
None == [kind |-> "none", shape |-> <<>>, at |-> <<>>]
Failed == [kind |-> "error", shape |-> <<>>, at |-> <<>>]
Tensor(shape, f) == [kind |-> "tensor", shape |-> shape, at |-> f]
IsNone(t) == t.kind = "none"
IsTensor(t) == t.kind = "tensor"
IsFailed(t) == t.kind = "error"

Indices(shape) ==
    CASE Len(shape) = 2 ->
           {<<a, b>> : a \in 0..(shape[1] - 1), b \in 0..(shape[2] - 1)}
      [] Len(shape) = 3 ->
           {<<a, b, c>> : a \in 0..(shape[1] - 1), b \in 0..(shape[2] - 1),
                          c \in 0..(shape[3] - 1)}
      [] Len(shape) = 4 ->
           {<<a, b, c, d>> : a \in 0..(shape[1] - 1), b \in 0..(shape[2] - 1),
                             c \in 0..(shape[3] - 1), d \in 0..(shape[4] - 1)}

\* Number of elements of a tensor of the given shape (rank at most 4).
Numel(shape) ==
    CASE Len(shape) = 0 -> 1
      [] Len(shape) = 1 -> shape[1]
      [] Len(shape) = 2 -> shape[1] * shape[2]
      [] Len(shape) = 3 -> shape[1] * shape[2] * shape[3]
      [] Len(shape) = 4 -> shape[1] * shape[2] * shape[3] * shape[4]

\* Row-major offset of index i in a contiguous tensor of the given shape.
Flat(shape, i) ==
    CASE Len(shape) = 3 -> (i[1] * shape[2] + i[2]) * shape[3] + i[3]
      [] Len(shape) = 4 ->
           ((i[1] * shape[2] + i[2]) * shape[3] + i[3]) * shape[4] + i[4]

\* The index of a contiguous tensor of the given shape at row-major offset n.
Unflat(shape, n) ==
    CASE Len(shape) = 3 ->
           <<n \div (shape[2] * shape[3]), (n \div shape[3]) % shape[2], n % shape[3]>>
      [] Len(shape) = 4 ->
           <<n \div (shape[2] * shape[3] * shape[4]),
             (n \div (shape[3] * shape[4])) % shape[2],
             (n \div shape[4]) % shape[3],
             n % shape[4]>>

\* 1-based position of a (possibly negative) Python dimension in a rank-r shape.
Dim(r, d) == IF d < 0 THEN r + d + 1 ELSE d + 1

InsertAt(s, p, x) == SubSeq(s, 1, p - 1) \o <<x>> \o SubSeq(s, p, Len(s))
RemoveAt(s, p) == SubSeq(s, 1, p - 1) \o SubSeq(s, p + 1, Len(s))

\* Tensor.unsqueeze(d): a new axis of size 1 at position d of the result.
unsqueeze(t, d) ==
    LET p == Dim(Len(t.shape) + 1, d)
        shape == InsertAt(t.shape, p, 1)
    IN Tensor(shape, [i \in Indices(shape) |-> t.at[RemoveAt(i, p)]])

\* Tensor.expand(sizes): -1 keeps an axis, a size-1 axis is repeated.
expand(t, sizes) ==
    IF Len(sizes) # Len(t.shape)
       \/ \E n \in 1..Len(sizes) :
            sizes[n] # -1 /\ t.shape[n] # 1 /\ t.shape[n] # sizes[n]
    THEN Failed
    ELSE LET shape == [n \in 1..Len(sizes) |->
                         IF sizes[n] = -1 THEN t.shape[n] ELSE sizes[n]]
         IN Tensor(shape,
                   [i \in Indices(shape) |->
                      t.at[[n \in 1..Len(shape) |->
                              IF t.shape[n] = 1 THEN 0 ELSE i[n]]]])

Max(a, b) == IF a >= b THEN a ELSE b

Broadcastable(s1, s2) ==
    /\ Len(s1) = Len(s2)
    /\ \A n \in 1..Len(s1) : s1[n] = s2[n] \/ s1[n] = 1 \/ s2[n] = 1

\* a | b on boolean tensors, with broadcasting of size-1 axes.
Or(a, b) ==
    IF ~Broadcastable(a.shape, b.shape) THEN Failed
    ELSE LET shape == [n \in 1..Len(a.shape) |-> Max(a.shape[n], b.shape[n])]
             Clip(i, s) == [n \in 1..Len(s) |-> IF s[n] = 1 THEN 0 ELSE i[n]]
         IN Tensor(shape,
                   [i \in Indices(shape) |->
                      a.at[Clip(i, a.shape)] \/ b.at[Clip(i, b.shape)]])

\* ~mask
Not(t) == Tensor(t.shape, [i \in Indices(t.shape) |-> ~t.at[i]])

\* nn.functional.pad(t, (0, 1), value): one more entry at the end of the last axis.
pad(t, value) ==
    LET r == Len(t.shape)
        shape == [t.shape EXCEPT ![r] = @ + 1]
    IN Tensor(shape,
              [i \in Indices(shape) |->
                 IF i[r] = t.shape[r] THEN value ELSE t.at[i]])

\* torch.cat([a, b], dim=1): the ranks and every other axis must agree.
cat(a, b) ==
    IF Len(a.shape) # Len(b.shape)
       \/ \E n \in 1..Len(a.shape) : n # 2 /\ a.shape[n] # b.shape[n]
    THEN Failed
    ELSE LET shape == [a.shape EXCEPT ![2] = @ + b.shape[2]]
         IN Tensor(shape,
                   [i \in Indices(shape) |->
                      IF i[2] < a.shape[2] THEN a.at[i]
                      ELSE b.at[[i EXCEPT ![2] = @ - a.shape[2]]]])

\* Tensor.view(shape) of a contiguous tensor: the same elements in row-major order.
view(t, shape) ==
    IF Numel(shape) # Numel(t.shape) THEN Failed
    ELSE Tensor(shape,
                [i \in Indices(shape) |-> t.at[Unflat(t.shape, Flat(shape, i))]])

\* Tensor.transpose(1, 2) of a rank-4 tensor.
transpose(t) ==
    LET Swap(s) == <<s[1], s[3], s[2], s[4]>>
        shape == Swap(t.shape)
    IN Tensor(shape, [i \in Indices(shape) |-> t.at[Swap(i)]])

\* torch.repeat_interleave(t, repeats, dim): each slice along dim is repeated
\* `repeats` times in place.
repeat_interleave(t, repeats, d) ==
    LET p == Dim(Len(t.shape), d)
        shape == [t.shape EXCEPT ![p] = @ * repeats]
    IN Tensor(shape,
              [i \in Indices(shape) |-> t.at[[i EXCEPT ![p] = @ \div repeats]]])

\* torch.zeros(shape)
Zero == <<"zero">>
zeros(shape) == Tensor(shape, [i \in Indices(shape) |-> Zero])

(***************************************************************************)
(* merge_masks                                                             *)
(***************************************************************************)
\* merge_masks with the explicit mask replacing the padding information instead
\* of being combined with it.
merge_masks_overwrite(q_mask, kvmask, attnmask, q_shape, k_shape) ==
    LET m1 == IF ~IsNone(q_mask) /\ ~IsNone(kvmask)
              THEN Or(unsqueeze(q_mask, -1), unsqueeze(kvmask, -2))
              ELSE None
        m2 == IF IsNone(q_mask) /\ ~IsNone(kvmask)
              THEN expand(unsqueeze(kvmask, -2), <<-1, q_shape[2], -1>>)
              ELSE m1
        m3 == IF IsNone(kvmask) /\ ~IsNone(q_mask)
              THEN expand(unsqueeze(q_mask, -1), <<-1, -1, k_shape[2]>>)
              ELSE m2
    IN IF ~IsNone(attnmask) THEN attnmask ELSE m3

merge_masks(q_mask, kvmask, attnmask, q_shape, k_shape) ==
    LET m1 == IF ~IsNone(q_mask) /\ ~IsNone(kvmask)
              THEN Or(unsqueeze(q_mask, -1), unsqueeze(kvmask, -2))
              ELSE None
        m2 == IF IsNone(q_mask) /\ ~IsNone(kvmask)
              THEN expand(unsqueeze(kvmask, -2), <<-1, q_shape[2], -1>>)
              ELSE m1
        m3 == IF IsNone(kvmask) /\ ~IsNone(q_mask)
              THEN expand(unsqueeze(q_mask, -1), <<-1, -1, k_shape[2]>>)
              ELSE m2
    IN IF ~IsNone(attnmask)
       THEN (IF IsNone(m3) THEN attnmask ELSE Or(attnmask, m3))
       ELSE m3

(***************************************************************************)
(* repeat_kv and the two kernels behind ATTN_BACKENDS.                     *)
(***************************************************************************)
repeat_kv(keys, values, repeats, d) ==
    <<repeat_interleave(keys, repeats, d), repeat_interleave(values, repeats, d)>>

\* A call of nn.functional.scaled_dot_product_attention(q, k, v, attn_mask=mask).
KernelCall(qq, kk, vv, mask) == [q |-> qq, k |-> kk, v |-> vv, mask |-> mask]
NoKernelIn == KernelCall(<<>>, None, None, None)

\* An exception: its type and the source line of the statement that raised it.
Exc(type, line) == [type |-> type, line |-> line]
NoExc == Exc("", 0)

\* What a backend function does: raise, or call the kernel.
Raise(e) == [raised |-> e, call |-> NoKernelIn]
Call(c) == [raised |-> NoExc, call |-> c]

\* torch_meff_attn without the conversion to the kernel's convention.
torch_meff_attn_uninverted(qq, kk, vv, mask) ==
    Call(KernelCall(qq, kk, vv, mask))

torch_meff_attn(qq, kk, vv, mask) ==
    Call(KernelCall(qq, kk, vv, IF ~IsNone(mask) THEN Not(mask) ELSE mask))

\* torch_flash_attn without its assertion.
torch_flash_attn_unchecked(qq, kk, vv, mask) ==
    Call(KernelCall(qq, kk, vv, mask))

torch_flash_attn(qq, kk, vv, mask) ==
    IF ~IsNone(mask) THEN Raise(Exc("AssertionError", 90))
    ELSE Call(KernelCall(qq, kk, vv, mask))

ATTN_BACKENDS ==
    ("torch-meff" :> "torch_meff_attn") @@ ("torch-flash" :> "torch_flash_attn")

\* self.attn_func(q, k, v, mask=..., dropout=...)
attn_func(obj, qq, kk, vv, mask) ==
    IF obj.attn_func = "torch_meff_attn" THEN torch_meff_attn(qq, kk, vv, mask)
    ELSE torch_flash_attn(qq, kk, vv, mask)

\* The shapes scaled_dot_product_attention can return for a call, <<>> standing
\* for a raised shape error.  Query (N,H,L,E), key (N,Hk,S,E), value (N,Hk,S,Ev),
\* mask broadcastable to the attention weights (N,H,L,S).  With head counts that
\* differ but broadcast, the unfused path broadcasts them and the fused paths
\* reject them: which one runs depends on the build and the device.
sdpa(c) ==
    LET qs == c.q
        ks == c.k.shape
        vs == c.v.shape
        fits == /\ qs[1] = ks[1] /\ ks[1] = vs[1]
                /\ qs[4] = ks[4]
                /\ ks[3] = vs[3] /\ ks[2] = vs[2]
        heads == Max(qs[2], ks[2])
        weights == <<qs[1], heads, qs[3], ks[3]>>
        maskFits == \/ IsNone(c.mask)
                    \/ /\ Len(c.mask.shape) = 4
                       /\ \A n \in 1..4 : c.mask.shape[n] \in {1, weights[n]}
        result == <<qs[1], heads, qs[3], vs[4]>>
    IN IF ~fits \/ ~maskFits THEN {<<>>}
       ELSE IF qs[2] = ks[2] THEN {result}
       ELSE IF qs[2] = 1 \/ ks[2] = 1 THEN {result, <<>>}
       ELSE {<<>>}

(***************************************************************************)
(* Attention                                                               *)
(***************************************************************************)
Absent == {}
Some(x) == {x}
Get(o) == CHOOSE x \in o : TRUE

\* nn.Linear(in_features, out_features) and its application to a shape
\* (<<>>: the last axis is not in_features wide, a shape error).
Linear(i, o) == [in_features |-> i, out_features |-> o]
Apply(w, shape) ==
    IF shape = <<>> \/ shape[Len(shape)] # w.in_features THEN <<>>
    ELSE [shape EXCEPT ![Len(shape)] = w.out_features]

NoObject == [embed_dim |-> 0, num_heads |-> 0, head_dim |-> 0, n_kv_heads |-> 0,
             repeats |-> 0, add_zero_attn |-> FALSE, attn_type |-> "",
             attn_func |-> "", window_size |-> <<0, 0>>,
             wq |-> Linear(0, 0), wk |-> Linear(0, 0), wv |-> Linear(0, 0),
             wo |-> Linear(0, 0)]

InitRaise(e) == [raised |-> e, obj |-> NoObject]

\* Attention.__init__: the object, or the exception the constructor raises.
Attention_init(embed_dim, num_heads, attn_type, n_kv_heads, window_size, zero_attn) ==
    LET head_dim == embed_dim \div num_heads
        nkv == IF n_kv_heads = Absent THEN num_heads ELSE Get(n_kv_heads)
        repeats == num_heads \div nkv
    IN IF head_dim = 0 THEN InitRaise(Exc("ZeroDivisionError", 147))
       ELSE IF attn_type \notin DOMAIN ATTN_BACKENDS
            THEN InitRaise(Exc("KeyError", 153))
       ELSE IF window_size # Absent /\ attn_type # "flash"
            THEN InitRaise(Exc("AssertionError", 158))
       ELSE IF window_size # Absent /\ Get(window_size) % 2 # 0
            THEN InitRaise(Exc("AssertionError", 159))
       ELSE [raised |-> NoExc,
             obj |-> [embed_dim |-> embed_dim,
                      num_heads |-> num_heads,
                      head_dim |-> head_dim,
                      n_kv_heads |-> nkv,
                      repeats |-> repeats,
                      add_zero_attn |-> zero_attn,
                      attn_type |-> attn_type,
                      attn_func |-> ATTN_BACKENDS[attn_type],
                      window_size |->
                          IF window_size = Absent THEN <<-1, -1>>
                          ELSE <<Get(window_size) \div 2, Get(window_size) \div 2>>,
                      wq |-> Linear(embed_dim, num_heads * head_dim),
                      wk |-> Linear(embed_dim, nkv * head_dim),
                      wv |-> Linear(embed_dim, nkv * head_dim),
                      wo |-> Linear(num_heads * head_dim, embed_dim)]]

\* The output of a projection: element [b,j,c] is named <<tag, b, j, c>>.
Projected(tag, shape) ==
    Tensor(shape, [i \in Indices(shape) |-> <<tag, i[1], i[2], i[3]>>])

FwdState(e, m, qq, kk, vv, am, km) ==
    [raised |-> e, merged |-> m, q |-> qq, k |-> kk, v |-> vv,
     attn_mask |-> am, kv_mask |-> km]

\* forward_pre with the keys and values extended but the mask left as merged.
forward_pre_mask_unpadded(obj, a) ==
    LET m == merge_masks(a.q_mask, a.kv_mask, a.attn_mask, a.q_shape, a.k_shape)
        qq == Apply(obj.wq, a.q_shape)
        kk == Projected("k", Apply(obj.wk, a.k_shape))
        vv == Projected("v", Apply(obj.wv, a.k_shape))
        zero_attn_shape == <<qq[1], 1, obj.embed_dim>>
        kz == cat(kk, zeros(zero_attn_shape))
        vz == cat(vv, zeros(zero_attn_shape))
    IN IF ~obj.add_zero_attn THEN FwdState(NoExc, m, qq, kk, vv, m, a.kv_mask)
       ELSE IF IsFailed(kz)
            THEN FwdState(Exc("RuntimeError", 208), m, qq, kk, vv, m, a.kv_mask)
       ELSE FwdState(NoExc, m, qq, kz, vz, m, a.kv_mask)

\* Attention.forward up to the call of self.backend: the locals at that point,
\* or at the statement that raised.
forward_pre(obj, a) ==
    LET m == merge_masks(a.q_mask, a.kv_mask, a.attn_mask, a.q_shape, a.k_shape)
        qq == Apply(obj.wq, a.q_shape)
        kk == Projected("k", Apply(obj.wk, a.k_shape))
        vv == Projected("v", Apply(obj.wv, a.k_shape))
        batch == qq[1]
        zero_attn_shape == <<batch, 1, obj.embed_dim>>
        kz == cat(kk, zeros(zero_attn_shape))
        vz == cat(vv, zeros(zero_attn_shape))
    IN IF ~obj.add_zero_attn THEN FwdState(NoExc, m, qq, kk, vv, m, a.kv_mask)
       ELSE IF IsFailed(kz)
            THEN FwdState(Exc("RuntimeError", 208), m, qq, kk, vv, m, a.kv_mask)
       ELSE IF IsFailed(vz)
            THEN FwdState(Exc("RuntimeError", 209), m, qq, kz, vv, m, a.kv_mask)
       ELSE FwdState(NoExc, m, qq, kz, vz,
                     IF ~IsNone(m) THEN pad(m, FALSE) ELSE m,
                     IF ~IsNone(a.kv_mask) THEN pad(a.kv_mask, FALSE) ELSE a.kv_mask)

BackendState(e, qq, kk, vv, am, c) ==
    [raised |-> e, q |-> qq, k |-> kk, v |-> vv, attn_mask |-> am, call |-> c]

\* Attention._torch_backend up to the kernel call inside self.attn_func.
torch_backend(obj, qq, kk, vv, am) ==
    LET batch == qq[1]
        q_len == qq[2]
        kv_len == kk.shape[2]
        q4 == <<batch, q_len, obj.num_heads, obj.head_dim>>
        qt == <<q4[1], q4[3], q4[2], q4[4]>>
        kview == view(kk, <<batch, kv_len, obj.n_kv_heads, obj.head_dim>>)
        vview == view(vv, <<batch, kv_len, obj.n_kv_heads, obj.head_dim>>)
        kt == transpose(kview)
        vt == transpose(vview)
        rep == IF obj.repeats > 1 THEN repeat_kv(kt, vt, obj.repeats, -2)
               ELSE <<kt, vt>>
        mview == view(am, <<batch, 1, q_len, kv_len>>)
        mexp == expand(mview, <<-1, obj.num_heads, -1, -1>>)
        r == attn_func(obj, qt, rep[1], rep[2], IF IsNone(am) THEN am ELSE mexp)
    IN IF Numel(q4) # Numel(qq)
       THEN BackendState(Exc("RuntimeError", 226), qq, kk, vv, am, NoKernelIn)
       ELSE IF IsFailed(kview)
       THEN BackendState(Exc("RuntimeError", 227), qt, kk, vv, am, NoKernelIn)
       ELSE IF IsFailed(vview)
       THEN BackendState(Exc("RuntimeError", 228), qt, kt, vv, am, NoKernelIn)
       ELSE IF ~IsNone(am) /\ (IsFailed(mview) \/ IsFailed(mexp))
       THEN BackendState(Exc("RuntimeError", 236), qt, rep[1], rep[2], am, NoKernelIn)
       ELSE BackendState(r.raised, qt, rep[1], rep[2],
                         IF IsNone(am) THEN am ELSE mexp, r.call)

Returned(shape) == [raised |-> NoExc, out |-> shape]
Threw(e) == [raised |-> e, out |-> <<>>]

\* The line of the kernel call in the backend function of the object.
KernelLine(obj) == IF obj.attn_func = "torch_meff_attn" THEN 86 ELSE 94

\* From the kernel's return to the return of forward: recombine the heads
\* (transpose, contiguous, view(batch, -1, embed_dim)) and project with wo.
\* `o` is the shape the kernel returned, <<>> when it raised.
forward_post(obj, batch, o) ==
    IF o = <<>> THEN Threw(Exc("RuntimeError", KernelLine(obj)))
    ELSE LET t == <<o[1], o[3], o[2], o[4]>>
             recombined == <<batch, Numel(t) \div (batch * obj.embed_dim),
                             obj.embed_dim>>
         IN IF Numel(t) % (batch * obj.embed_dim) # 0
            THEN Threw(Exc("RuntimeError", 242))
            ELSE IF Apply(obj.wo, recombined) = <<>>
            THEN Threw(Exc("RuntimeError", 219))
            ELSE Returned(Apply(obj.wo, recombined))

\* What Attention.forward can do for a call: the shape it returns or the
\* exception it raises.
Attention_forward(obj, a) ==
    LET f == forward_pre(obj, a)
        b == torch_backend(obj, f.q, f.k, f.v, f.attn_mask)
    IN IF f.raised # NoExc THEN {Threw(f.raised)}
       ELSE IF b.raised # NoExc THEN {Threw(b.raised)}
       ELSE {forward_post(obj, f.q[1], o) : o \in sdpa(b.call)}

(***************************************************************************)
(* GLU, EncoderLayer, TransformerV2 (shapes only)                          *)
(***************************************************************************)
\* A normalization layer built for `dim`: the shape it returns.
normalize(dim, shape) == shape

\* a + b on shapes, with broadcasting (<<>>: a shape error).
Add(s1, s2) ==
    IF ~Broadcastable(s1, s2) THEN <<>>
    ELSE [n \in 1..Len(s1) |-> Max(s1[n], s2[n])]

\* GLU(embed_dim): hidden_dim defaults to embed_dim * 2.
GLU_init(embed_dim) ==
    [in_proj |-> Linear(embed_dim, embed_dim * 2),
     out_proj |-> Linear(embed_dim * 2, embed_dim)]

\* GLU.forward: the activation and the gate keep the hidden shape.
GLU_forward(glu, shape) == Apply(glu.out_proj, Apply(glu.in_proj, shape))

\* EncoderLayer(embed_dim, attn_kwargs=kw): its attention and dense blocks,
\* or the exception Attention.__init__ raises.
EncoderLayer_init(embed_dim, kw) ==
    LET a == Attention_init(embed_dim, kw.num_heads, kw.attn_type, kw.n_kv_heads,
                            Absent, kw.add_zero_attn)
    IN [raised |-> a.raised,
        obj |-> [embed_dim |-> embed_dim, attn |-> a.obj,
                 dense |-> GLU_init(embed_dim)]]

\* SelfAttention.forward(x, kv_mask=pad_mask): attention(x, x, x, kv_mask=...).
SelfAttention_forward(attn, shape, pad_mask) ==
    Attention_forward(attn, [q_shape |-> shape, k_shape |-> shape,
                             q_mask |-> None, kv_mask |-> pad_mask,
                             attn_mask |-> None])

\* EncoderLayer.forward(x, pad_mask): what it can return or raise.
EncoderLayer_forward(layer, shape, pad_mask) ==
    {IF r.raised # NoExc THEN r
     ELSE LET x1 == Add(shape, r.out)
              x2 == Add(x1, GLU_forward(layer.dense,
                                        normalize(layer.embed_dim, x1)))
          IN IF x1 = <<>> THEN Threw(Exc("RuntimeError", 354))
             ELSE IF x2 = <<>> THEN Threw(Exc("RuntimeError", 355))
             ELSE Returned(x2) :
        r \in SelfAttention_forward(layer.attn,
                                    normalize(layer.embed_dim, shape), pad_mask)}

NoStack == [num_layers |-> 0, embed_dim |-> 0, layers |-> <<>>,
            out_proj |-> {}, out_norm |-> 0]

\* TransformerV2(num_layers, embed_dim, out_dim, **kwargs)
TransformerV2_init(num_layers, embed_dim, out_dim, kw) ==
    LET layer == EncoderLayer_init(embed_dim, kw)
    IN IF num_layers > 0 /\ layer.raised # NoExc
       THEN [raised |-> layer.raised, obj |-> NoStack]
       ELSE [raised |-> NoExc,
             obj |-> [num_layers |-> num_layers,
                      embed_dim |-> embed_dim,
                      layers |-> [n \in 1..num_layers |-> layer.obj],
                      out_proj |-> IF out_dim = Absent THEN {}
                                   ELSE {Linear(embed_dim, Get(out_dim))},
                      out_norm |-> IF out_dim = Absent THEN embed_dim
                                   ELSE Get(out_dim)]]

\* TransformerV2.forward before the loop: a mapping of named sequences is
\* concatenated along the sequence axis, and so are its masks.
RECURSIVE CatShapes(_)
CatShapes(parts) ==
    IF Len(parts) = 1 THEN parts[1]
    ELSE LET rest == CatShapes(Tail(parts))
         IN [rest EXCEPT ![2] = @ + parts[1][2]]

RECURSIVE CatAll(_)
CatAll(parts) ==
    IF Len(parts) = 1 THEN parts[1] ELSE cat(parts[1], CatAll(Tail(parts)))

\* TransformerV2_finish without the projection to out_dim.
TransformerV2_finish_unprojected(obj, shape) ==
    Returned(normalize(obj.out_norm, shape))

\* TransformerV2.forward after the loop: the optional projection and the
\* final normalization.
TransformerV2_finish(obj, shape) ==
    LET projected == IF obj.out_proj # {} THEN Apply(Get(obj.out_proj), shape)
                     ELSE shape
    IN IF projected = <<>> THEN Threw(Exc("RuntimeError", 436))
       ELSE Returned(normalize(obj.out_norm, projected))

(***************************************************************************)
(* Inputs.  An absent optional argument (Python's None) of integer type is *)
(* the empty set, a present one the singleton of its value.                *)
(***************************************************************************)
\* Padding masks given by the number of real tokens of each batch element:
\* position i of element b is padding (true) from its length on.  The first
\* element has any length l in 0..n and the lengths of the others follow it
\* cyclically, so that a batch holds fully padded, partly padded and unpadded
\* sequences side by side.
LengthMasks(b, n) ==
    {Tensor(<<b, n>>, [i \in Indices(<<b, n>>) |-> i[2] >= (l + i[1]) % (n + 1)]) :
        l \in 0..n}

\* Every boolean tensor of a shape.
AllMasks(shape) == {Tensor(shape, f) : f \in [Indices(shape) -> BOOLEAN]}

\* Explicit attention masks: causal, everything forbidden, a checkerboard.
PatternMasks(b, ql, kl) ==
    LET shape == <<b, ql, kl>>
    IN {Tensor(shape, [i \in Indices(shape) |-> i[3] > i[2]]),
        Tensor(shape, [i \in Indices(shape) |-> TRUE]),
        Tensor(shape, [i \in Indices(shape) |-> (i[1] + i[2] + i[3]) % 2 = 1])}

NoArgs == [q_shape |-> <<>>, k_shape |-> <<>>,
           q_mask |-> None, kv_mask |-> None, attn_mask |-> None]

(***************************************************************************)
(* Specification of merge_masks alone: any padding masks, and any explicit *)
(* mask on a batch of one (the three patterns on larger batches).          *)
(***************************************************************************)
NoStackArgs == [is_dict |-> FALSE, x |-> <<>>, pad_mask |-> <<>>]

NoCfg == [embed_dim |-> 0, num_heads |-> 0, attn_type |-> "", n_kv_heads |-> Absent,
          window_size |-> Absent, add_zero_attn |-> FALSE]
AttnIdle ==
    /\ cfg = NoCfg /\ self = NoObject
    /\ q = <<>> /\ k = None /\ v = None /\ attn_mask = None /\ kv_mask = None
    /\ kernel_in = NoKernelIn /\ out = <<>> /\ raised = NoExc

StackIdle ==
    /\ tpc = "idle" /\ tself = NoStack /\ targs = NoStackArgs /\ tx = <<>>
    /\ tpad = None /\ ti = 0 /\ tseen = <<>> /\ traised = NoExc

MergeInit ==
    /\ pc = "call"
    /\ \E b \in BatchSizes, ql \in QLens, kl \in KvLens :
       \E x \in {None} \cup AllMasks(<<b, ql>>),
          y \in {None} \cup AllMasks(<<b, kl>>),
          z \in {None} \cup (IF b = 1 THEN AllMasks(<<b, ql, kl>>)
                             ELSE PatternMasks(b, ql, kl)) :
          args = [q_shape |-> <<b, ql, 1>>, k_shape |-> <<b, kl, 1>>,
                  q_mask |-> x, kv_mask |-> y, attn_mask |-> z]
    /\ merged = None
    /\ AttnIdle
    /\ StackIdle

MergeCall ==
    /\ pc = "call"
    /\ merged' = merge_masks(args.q_mask, args.kv_mask, args.attn_mask,
                             args.q_shape, args.k_shape)
    /\ pc' = "returned"
    /\ UNCHANGED <<cfg, self, args, q, k, v, attn_mask, kv_mask, kernel_in, out,
                   raised>>
    /\ UNCHANGED stackVars

MergeNext == MergeCall

SpecMerge == MergeInit /\ [][MergeNext]_vars

(***************************************************************************)
(* Specification of one Attention object: it is constructed, then forward  *)
(* is called on it once and runs to its return or to an exception.         *)
(***************************************************************************)
EmbedDims == {1, 2, 3}
NumHeads == {1, 2}
NKvHeads == {Absent, Some(1), Some(2)}
AttnTypes == {"torch-meff", "torch-flash", "flash"}
WindowSizes == {Absent, Some(2), Some(3)}

\* A call of forward on sequences of width embed_dim, with keys and values of
\* one shape, and masks of the documented shapes.
ForwardArgs(embed_dim, b, ql, kl, x, y, z) ==
    [q_shape |-> <<b, ql, embed_dim>>, k_shape |-> <<b, kl, embed_dim>>,
     q_mask |-> x, kv_mask |-> y, attn_mask |-> z]

Init ==
    /\ pc = "new"
    /\ args = NoArgs
    /\ merged = None
    /\ AttnIdle
    /\ StackIdle

\* Attention(embed_dim, num_heads, attn_type, n_kv_heads, window_size, ...)
Construct ==
    /\ pc = "new"
    /\ \E e \in EmbedDims, h \in NumHeads, t \in AttnTypes, n \in NKvHeads,
          w \in WindowSizes, z \in BOOLEAN :
          LET r == Attention_init(e, h, t, n, w, z)
          IN /\ cfg' = [embed_dim |-> e, num_heads |-> h, attn_type |-> t,
                        n_kv_heads |-> n, window_size |-> w, add_zero_attn |-> z]
             /\ self' = r.obj
             /\ raised' = r.raised
             /\ pc' = IF r.raised = NoExc THEN "ready" ELSE "init_raised"
    /\ UNCHANGED <<args, merged, q, k, v, attn_mask, kv_mask, kernel_in, out>>
    /\ UNCHANGED stackVars

\* forward(q, k, v, q_mask, kv_mask, attn_mask), to the call of self.backend.
Forward ==
    /\ pc = "ready"
    /\ \E b \in BatchSizes, ql \in QLens, kl \in KvLens :
       \E x \in {None} \cup LengthMasks(b, ql),
          y \in {None} \cup LengthMasks(b, kl),
          z \in {None} \cup PatternMasks(b, ql, kl) :
          LET a == ForwardArgs(self.embed_dim, b, ql, kl, x, y, z)
              f == forward_pre(self, a)
          IN /\ args' = a
             /\ merged' = f.merged
             /\ q' = f.q /\ k' = f.k /\ v' = f.v
             /\ attn_mask' = f.attn_mask
             /\ kv_mask' = f.kv_mask
             /\ raised' = f.raised
             /\ pc' = IF f.raised = NoExc THEN "backend" ELSE "raised"
    /\ UNCHANGED <<cfg, self, kernel_in, out>>
    /\ UNCHANGED stackVars

\* self.backend(q, k, v, attn_mask), to the kernel call inside self.attn_func.
TorchBackend ==
    /\ pc = "backend"
    /\ LET b == torch_backend(self, q, k, v, attn_mask)
       IN /\ q' = b.q /\ k' = b.k /\ v' = b.v
          /\ attn_mask' = b.attn_mask
          /\ kernel_in' = b.call
          /\ raised' = b.raised
          /\ pc' = IF b.raised = NoExc THEN "kernel" ELSE "raised"
    /\ UNCHANGED <<cfg, self, args, merged, kv_mask, out>>
    /\ UNCHANGED stackVars

\* The kernel returns (or raises), the heads are recombined and projected, and
\* forward returns.
KernelReturn ==
    /\ pc = "kernel"
    /\ \E o \in sdpa(kernel_in) :
          LET r == forward_post(self, args.q_shape[1], o)
          IN /\ out' = r.out
             /\ raised' = r.raised
             /\ pc' = IF r.raised = NoExc THEN "done" ELSE "raised"
    \* the locals of forward end with the call
    /\ q' = <<>> /\ k' = None /\ v' = None /\ attn_mask' = None /\ kv_mask' = None
    /\ UNCHANGED <<cfg, self, args, merged, kernel_in>>
    /\ UNCHANGED stackVars

Next == Construct \/ Forward \/ TorchBackend \/ KernelReturn

Spec == Init /\ [][Next]_vars

(***************************************************************************)
(* Specification of one TransformerV2 object: it is constructed, forward   *)
(* is called once, the layers run in order, and forward returns or raises. *)
(***************************************************************************)
OutDims == {Absent, Some(1)}
StackAttnTypes == {"torch-meff", "torch-flash"}

\* The inputs of a call: one sequence, or a mapping of two; with each
\* sequence its padding mask.
StackXParts(b, embed_dim) ==
    {<<<<b, l, embed_dim>>>> : l \in QLens}
      \cup {<<<<b, l1, embed_dim>>, <<b, l2, embed_dim>>>> :
              l1 \in QLens, l2 \in {1}}

StackInit ==
    /\ pc = "idle"
    /\ args = NoArgs
    /\ merged = None
    /\ AttnIdle
    /\ tpc = "new" /\ tself = NoStack /\ targs = NoStackArgs /\ tx = <<>>
    /\ tpad = None /\ ti = 0 /\ tseen = <<>> /\ traised = NoExc

StackConstruct ==
    /\ tpc = "new"
    /\ \E n \in 0..MaxLayers, e \in EmbedDims, o \in OutDims, h \in NumHeads,
          g \in NKvHeads, t \in StackAttnTypes, z \in BOOLEAN :
          LET r == TransformerV2_init(n, e, o,
                                      [num_heads |-> h, n_kv_heads |-> g,
                                       attn_type |-> t, add_zero_attn |-> z])
          IN /\ tself' = r.obj
             /\ traised' = r.raised
             /\ tpc' = IF r.raised = NoExc THEN "ready" ELSE "init_raised"
    /\ UNCHANGED <<targs, tx, tpad, ti, tseen>>
    /\ UNCHANGED attnVars

\* forward(x, pad_mask) up to the loop over the layers.
StackForward ==
    /\ tpc = "ready"
    /\ \E b \in BatchSizes :
       \E xs \in StackXParts(b, tself.embed_dim) :
       \E ms \in {<<m>> : m \in LengthMasks(b, xs[1][2])}
                  \cup {<<m1, m2>> : m1 \in LengthMasks(b, xs[1][2]),
                                     m2 \in LengthMasks(b, 1)} :
          /\ Len(ms) = Len(xs)
          /\ targs' = [is_dict |-> Len(xs) > 1, x |-> xs, pad_mask |-> ms]
          /\ tx' = CatShapes(xs)
          /\ tpad' = CatAll(ms)
    /\ ti' = 0
    /\ tpc' = "loop"
    /\ UNCHANGED <<tself, tseen, traised>>
    /\ UNCHANGED attnVars

\* One iteration of the loop: self.featurewise is empty, x = layer(x, pad_mask).
LayerStep ==
    /\ tpc = "loop"
    /\ ti < tself.num_layers
    /\ tseen' = Append(tseen, [x |-> tx, pad_mask |-> tpad])
    /\ \E r \in EncoderLayer_forward(tself.layers[ti + 1], tx, tpad) :
          /\ traised' = r.raised
          /\ tx' = IF r.raised = NoExc THEN r.out ELSE tx
          /\ tpc' = IF r.raised = NoExc THEN "loop" ELSE "raised"
    /\ ti' = ti + 1
    /\ UNCHANGED <<tself, targs, tpad>>
    /\ UNCHANGED attnVars

\* After the loop: out_proj, out_norm, return.
StackReturn ==
    /\ tpc = "loop"
    /\ ti = tself.num_layers
    /\ LET r == TransformerV2_finish(tself, tx)
       IN /\ traised' = r.raised
          /\ tx' = IF r.raised = NoExc THEN r.out ELSE tx
          /\ tpc' = IF r.raised = NoExc THEN "done" ELSE "raised"
    /\ UNCHANGED <<tself, targs, tpad, ti, tseen>>
    /\ UNCHANGED attnVars

StackNext == StackConstruct \/ StackForward \/ LayerStep \/ StackReturn

SpecStack == StackInit /\ [][StackNext]_vars

(***************************************************************************)
(* C1.  merge_masks returns None exactly when q_mask, kv_mask and          *)
(* attn_mask are all absent; otherwise it returns a boolean tensor of      *)
(* shape exactly (batch, q_len, kv_len) whose entry [b,i,j] is the OR of   *)
(* q_mask[b,i], kv_mask[b,j] and attn_mask[b,i,j] over the present ones.   *)
(***************************************************************************)
SourcesOr(a, i) ==
    \/ (~IsNone(a.q_mask) /\ a.q_mask.at[<<i[1], i[2]>>])
    \/ (~IsNone(a.kv_mask) /\ a.kv_mask.at[<<i[1], i[3]>>])
    \/ (~IsNone(a.attn_mask) /\ a.attn_mask.at[i])

AllAbsent(a) == IsNone(a.q_mask) /\ IsNone(a.kv_mask) /\ IsNone(a.attn_mask)

MergedShape(a) == <<a.q_shape[1], a.q_shape[2], a.k_shape[2]>>

C1_MergeIsOrOfPresent ==
    pc = "returned" =>
        /\ IsNone(merged) <=> AllAbsent(args)
        /\ ~AllAbsent(args) =>
             /\ IsTensor(merged)
             /\ merged.shape = MergedShape(args)
             /\ \A i \in Indices(MergedShape(args)) :
                    merged.at[i] = SourcesOr(args, i)

\* All three masks present, with an entry forbidden by the explicit mask alone
\* and an entry no source forbids.
C1_Witness ==
    /\ pc = "returned"
    /\ ~IsNone(args.q_mask) /\ ~IsNone(args.kv_mask) /\ ~IsNone(args.attn_mask)
    /\ IsTensor(merged)
    /\ \E i \in Indices(merged.shape) :
          /\ merged.at[i]
          /\ ~args.q_mask.at[<<i[1], i[2]>>]
          /\ ~args.kv_mask.at[<<i[1], i[3]>>]
    /\ \E i \in Indices(merged.shape) : ~merged.at[i]

(***************************************************************************)
(* Vocabulary of the claims about one forward call.                        *)
(***************************************************************************)
Batch == args.q_shape[1]
QLen == args.q_shape[2]
KvLen == args.k_shape[2]
Called == pc \in {"backend", "kernel", "done", "raised"}

\* The data-model invariants of a configuration.
Divisible(obj) == obj.embed_dim = obj.num_heads * obj.head_dim
Grouped(obj) == obj.num_heads % obj.n_kv_heads = 0

\* Entry [b,i,j] of the unified mask after the optional zero-attention column:
\* the OR of the present sources on the real keys, never forbidden on the
\* appended slot.
Unified(b, i, j) == IF j < KvLen THEN SourcesOr(args, <<b, i, j>>) ELSE FALSE

(***************************************************************************)
(* C2.  With add_zero_attn and at least one mask supplied, the mask handed *)
(* to the backend is kv_len + 1 wide, its last column is false for every   *)
(* batch element and query position, so every query row holds an unmasked  *)
(* entry.                                                                  *)
(***************************************************************************)
C2_ZeroAttnColumnUnmasked ==
    (pc = "backend" /\ self.add_zero_attn /\ ~AllAbsent(args)) =>
        /\ IsTensor(attn_mask)
        /\ attn_mask.shape = <<Batch, QLen, KvLen + 1>>
        /\ \A b \in 0..(Batch - 1), i \in 0..(QLen - 1) :
              /\ ~attn_mask.at[<<b, i, KvLen>>]
              /\ \E j \in 0..KvLen : ~attn_mask.at[<<b, i, j>>]

\* A batch element whose keys are all padding and a padded query reach the
\* backend: every real key of that row is forbidden.
C2_Witness ==
    /\ pc = "backend" /\ self.add_zero_attn
    /\ ~IsNone(args.kv_mask) /\ ~IsNone(args.q_mask)
    /\ \E b \in 0..(Batch - 1) :
          /\ \A j \in 0..(KvLen - 1) : args.kv_mask.at[<<b, j>>]
          /\ \E i \in 0..(QLen - 1) : args.q_mask.at[<<b, i>>]
          /\ \A i \in 0..(QLen - 1), j \in 0..(KvLen - 1) : attn_mask.at[<<b, i, j>>]

(***************************************************************************)
(* C3.  For every configuration satisfying the data-model invariants       *)
(* (embed_dim = num_heads * head_dim, num_heads a multiple of n_kv_heads), *)
(* with the generic backend, forward returns a tensor of the shape of the  *)
(* query input and does not raise.                                         *)
(***************************************************************************)
C3_ShapeInvariance ==
    (pc \in {"done", "raised"} /\ Divisible(self) /\ Grouped(self)
       /\ self.attn_type = "torch-meff") =>
        /\ pc = "done"
        /\ out = args.q_shape

(***************************************************************************)
(* C4.  Construction with an embed_dim that is no multiple of num_heads    *)
(* fails; no object exists with embed_dim # num_heads * head_dim.          *)
(***************************************************************************)
C4_IndivisibleRejected ==
    /\ (pc # "new" /\ cfg.embed_dim % cfg.num_heads # 0) => pc = "init_raised"
    /\ pc \notin {"new", "init_raised"} => Divisible(self)

(***************************************************************************)
(* C5.  With the "torch-flash" backend a forward call given any of q_mask, *)
(* kv_mask, attn_mask never reaches the kernel: it raises before.  The     *)
(* kernel is reached only when all three masks are absent.                 *)
(***************************************************************************)
C5_FlashRejectsMasks ==
    self.attn_type = "torch-flash" =>
        /\ pc \in {"kernel", "done"} => AllAbsent(args)
        /\ kernel_in # NoKernelIn => AllAbsent(args)
        /\ (Called /\ ~AllAbsent(args)) =>
              /\ pc \in {"backend", "raised"}
              /\ pc = "raised" => raised.line \in {208, 209, 227, 228, 236, 90}

\* A masked call on a flash object is stopped by the assertion of
\* torch_flash_attn, and an unmasked one reaches the kernel.
C5_Witness ==
    /\ self.attn_type = "torch-flash"
    /\ pc = "raised" /\ raised = Exc("AssertionError", 90)
    /\ ~IsNone(args.kv_mask) /\ IsNone(args.q_mask) /\ IsNone(args.attn_mask)

(***************************************************************************)
(* C6.  Construction accepts a window_size exactly when the backend is the *)
(* flash-restricted one and window_size is even, and then stores           *)
(* (window_size/2, window_size/2); with window_size unset any registered   *)
(* backend constructs and stores (-1, -1); a window_size with another      *)
(* backend fails.                                                          *)
(***************************************************************************)
Constructed == pc \notin {"new", "init_raised"}

C6_WindowAccepted ==
    (pc # "new" /\ cfg.embed_dim >= cfg.num_heads) =>
        /\ cfg.window_size # Absent =>
              /\ Constructed <=> (cfg.attn_type = "torch-flash"
                                  /\ Get(cfg.window_size) % 2 = 0)
              /\ Constructed =>
                    self.window_size = <<Get(cfg.window_size) \div 2,
                                         Get(cfg.window_size) \div 2>>
        /\ (cfg.window_size = Absent /\ cfg.attn_type \in DOMAIN ATTN_BACKENDS) =>
              /\ Constructed
              /\ self.window_size = <<-1, -1>>

(***************************************************************************)
(* C8.  With num_heads = r * n_kv_heads the keys and values the kernel     *)
(* receives have shape (batch, num_heads, kv_len, head_dim) and head h is  *)
(* the original key/value head floor(h / r); with r = 1 they are passed    *)
(* through unchanged.                                                      *)
(***************************************************************************)
\* Element d of head g at position j of the keys/values that enter the
\* backend: entry g * head_dim + d of the projection, or the zero slot.
HeadElem(tag, b, g, j, d) ==
    IF j < KvLen THEN <<tag, b, j, g * self.head_dim + d>> ELSE Zero

KernelKvLen == IF self.add_zero_attn THEN KvLen + 1 ELSE KvLen

C8_GroupedQueryRepetition ==
    (pc = "kernel" /\ Grouped(self)) =>
        LET shape == <<Batch, self.num_heads, KernelKvLen, self.head_dim>>
        IN /\ kernel_in.k.shape = shape
           /\ kernel_in.v.shape = shape
           /\ \A i \in Indices(shape) :
                 /\ kernel_in.k.at[i] =
                       HeadElem("k", i[1], i[2] \div self.repeats, i[3], i[4])
                 /\ kernel_in.v.at[i] =
                       HeadElem("v", i[1], i[2] \div self.repeats, i[3], i[4])

(***************************************************************************)
(* C9.  With add_zero_attn and num_heads a multiple of n_kv_heads, the     *)
(* zero key and value slots are as wide as the projected keys and values,  *)
(* the append succeeds, and the keys and values passed on are kv_len + 1   *)
(* long, as wide as the padded mask.                                       *)
(***************************************************************************)
C9_ZeroAttnAppend ==
    (Called /\ self.add_zero_attn /\ Grouped(self)) =>
        /\ raised.line \notin {208, 209}
        /\ pc = "backend" =>
              /\ k.shape = <<Batch, KvLen + 1, self.n_kv_heads * self.head_dim>>
              /\ v.shape = k.shape
              /\ IsTensor(attn_mask) => attn_mask.shape[3] = k.shape[2]

(***************************************************************************)
(* C10.  At the kernel boundary of the generic backend the mask handed to  *)
(* the kernel has shape (batch, num_heads, q_len, kv_len) and is the       *)
(* negation of the unified mask, the same for every head; a null unified   *)
(* mask is passed as null.                                                 *)
(***************************************************************************)
C10_KeepMaskIsNegation ==
    (pc = "kernel" /\ self.attn_type = "torch-meff") =>
        /\ AllAbsent(args) => IsNone(kernel_in.mask)
        /\ ~AllAbsent(args) =>
              LET shape == <<Batch, self.num_heads, QLen, KernelKvLen>>
              IN /\ IsTensor(kernel_in.mask)
                 /\ kernel_in.mask.shape = shape
                 /\ \A i \in Indices(shape) :
                       kernel_in.mask.at[i] = ~Unified(i[1], i[3], i[4])

\* Two heads receive a mask that keeps some pairs and drops others, with the
\* zero-attention column kept.
C10_Witness ==
    /\ pc = "kernel" /\ self.attn_type = "torch-meff"
    /\ self.num_heads = 2 /\ self.add_zero_attn
    /\ IsTensor(kernel_in.mask)
    /\ \E i \in Indices(kernel_in.mask.shape) : ~kernel_in.mask.at[i]
    /\ \E i \in Indices(kernel_in.mask.shape) :
          i[4] < KvLen /\ kernel_in.mask.at[i]

(***************************************************************************)
(* C7.  TransformerV2.forward on an input of shape (batch, len, embed_dim) *)
(* and a padding mask of shape (batch, len), with any number of layers:    *)
(* every layer is called with a sequence of shape (batch, len, embed_dim)  *)
(* and the original padding mask of width len, and forward returns shape   *)
(* (batch, len, embed_dim), or (batch, len, out_dim) when out_dim is set.  *)
(* Stated for configurations that meet the data-model invariants.          *)
(***************************************************************************)
StackBatch == targs.x[1][1]
StackLen == IF targs.is_dict THEN targs.x[1][2] + targs.x[2][2] ELSE targs.x[1][2]

\* Entry [b,j] of the padding mask the caller supplied (of the concatenation
\* of the masks of a mapping).
OrigPad(b, j) ==
    IF j < targs.x[1][2] THEN targs.pad_mask[1].at[<<b, j>>]
    ELSE targs.pad_mask[2].at[<<b, j - targs.x[1][2]>>]

StackValid ==
    \A n \in 1..Len(tself.layers) :
        Divisible(tself.layers[n].attn) /\ Grouped(tself.layers[n].attn)

C7_StackShapes ==
    (tpc \in {"loop", "done", "raised"} /\ StackValid) =>
        /\ \A n \in 1..Len(tseen) :
              /\ tseen[n].x = <<StackBatch, StackLen, tself.embed_dim>>
              /\ tseen[n].pad_mask.shape = <<StackBatch, StackLen>>
              /\ \A i \in Indices(<<StackBatch, StackLen>>) :
                    tseen[n].pad_mask.at[i] = OrigPad(i[1], i[2])
        /\ tpc = "done" =>
              /\ Len(tseen) = tself.num_layers
              /\ tx = <<StackBatch, StackLen, tself.out_norm>>
              /\ tself.out_norm = IF tself.out_proj = {} THEN tself.embed_dim
                                  ELSE Get(tself.out_proj).out_features

\* Two layers with zero-attention padding ran on a concatenated input and the
\* result was projected to out_dim.
C7_Witness ==
    /\ tpc = "done"
    /\ tself.num_layers = 2 /\ Len(tseen) = 2
    /\ tself.layers[1].attn.add_zero_attn
    /\ tself.out_proj # {}
    /\ tself.embed_dim # tself.out_norm
    /\ targs.is_dict

====
